---- MODULE Spec2Model ----
(***************************************************************************)
(* Catalogue service: transactional outbox (Outbox Store, Outbox           *)
(* Publisher, Live Publisher, drain loop) and the two status              *)
(* reconciliation handlers (reservation events, availability events).      *)
(***************************************************************************)
EXTENDS Integers, Sequences, FiniteSets, TLC

(* ------------------------------ bounds -------------------------------- *)
\* number of outbox ids that can ever be allocated
MaxMsgs == 2
\* largest retryCount the model lets an entry reach
MaxRetry == 1
\* wall clock (milliseconds) at start-up and the last instant modelled
ClockStart == 9
MaxClock == 10
\* entries ever queued while two drain ticks overlap
MaxOverlapMsgs == 1
\* longest batch handed to publishBatch, and entries its callers ever queue
MaxBatch == 3

(* ------------------------- program constants -------------------------- *)
\* processOutbox asks for 20 entries per tick
DrainBatchSize == 20
\* retention window applied by markAsProcessed: 60 * 60 * 24 * 7 seconds
RetentionTtl == 604800

DeviceIds == {"d1", "d2"}

\* enum DeviceStatus
DeviceStatus == {"Available", "Unavailable", "Maintenance", "Retired", "Lost"}
\* a null DeviceStatus
NoStatus == "null"
\* a dataVersion argument that is not passed
NoVersion == "undefined"
\* an optional ISO timestamp / error / ttl that is not set
NoDate == <<>>
NoError == "undefined"
NoTtl == 0

VARIABLES
  clock,        \* Date.now()
  devices,      \* Device Store container: id -> DeviceDocument (NoDevice when absent)
  outbox,       \* Outbox Store container: id -> OutboxDocument
  isConfigured, \* EventGridPublisher.isConfigured
  accepted,     \* transport: ids of the entries whose payload a send delivered
  tick,         \* the drain tick in progress (processOutbox invocation)
  h,            \* the reconciliation handler invocation in progress
  g,            \* a second handler invocation, running at the same time as h
  tick2,        \* a second drain tick, overlapping tick
  batch,        \* a direct call of an EventPublisher (publish or publishBatch)
  deviceModels, \* Device Model Store container: id -> DeviceModelDocument
  uc            \* the use case invocation in progress

vars == <<clock, devices, outbox, isConfigured, accepted, tick, h, g, tick2, batch,
          deviceModels, uc>>

(* --------------------------- date conversion -------------------------- *)
\* Date.prototype.toISOString: fixed-width, zero-padded decimal fields
toISOString(t) == <<t \div 10, t % 10>>

\* new Date(isoString)
parseDate(s) == s[1] * 10 + s[2]

\* string comparison as the store's ORDER BY applies it to two ISO strings
RECURSIVE StrLess(_, _)
StrLess(a, b) ==
  IF b = <<>> THEN FALSE
  ELSE IF a = <<>> THEN TRUE
  ELSE IF Head(a) < Head(b) THEN TRUE
  ELSE IF Head(a) > Head(b) THEN FALSE
  ELSE StrLess(Tail(a), Tail(b))

Min(a, b) == IF a < b THEN a ELSE b

(* ----------------------------- Outbox Store --------------------------- *)
\* container.items.upsert(doc)
Upsert(store, doc) ==
  [k \in (DOMAIN store) \cup {doc.id} |-> IF k = doc.id THEN doc ELSE store[k]]

\* CosmosOutboxRepo.save: the document written for a message
OutboxSaveDoc(message) ==
  [id |-> message.id, topic |-> message.topic, eventType |-> message.eventType,
   subject |-> message.subject, data |-> message.data,
   dataVersion |-> message.dataVersion,
   eventTime |-> toISOString(message.eventTime),
   processed |-> message.processed,
   processedAt |-> IF message.processedAt = NoDate THEN NoDate
                   ELSE toISOString(message.processedAt[1]),
   error |-> message.error, retryCount |-> message.retryCount, ttl |-> NoTtl]

\* CosmosOutboxRepo.mapToDomain (an optional Date is <<>> or <<date>>)
mapToDomain(doc) ==
  [id |-> doc.id, topic |-> doc.topic, eventType |-> doc.eventType,
   subject |-> doc.subject, data |-> doc.data, dataVersion |-> doc.dataVersion,
   eventTime |-> parseDate(doc.eventTime),
   processed |-> doc.processed,
   processedAt |-> IF doc.processedAt = NoDate THEN NoDate
                   ELSE <<parseDate(doc.processedAt)>>,
   error |-> doc.error, retryCount |-> doc.retryCount]

\* WHERE c.processed = false, dropping the filter
UnprocessedIdsNoFilter(store) == DOMAIN store

\* WHERE c.processed = false
UnprocessedIds(store) == {k \in DOMAIN store : store[k].processed = FALSE}

\* ORDER BY dropped: any order of the rows
OrderedByEventTimeAnyOrder(store, s) == TRUE

\* ORDER BY c.eventTime ASC: s lists ids in an order the query may produce
OrderedByEventTime(store, s) ==
  \A i, j \in 1..Len(s) :
    i < j => ~StrLess(store[s[j]].eventTime, store[s[i]].eventTime)

\* the orders in which the query may return the rows (ties in any order)
QueryOrders(store) ==
  LET ids == UnprocessedIds(store)
      n == Cardinality(ids)
  IN {s \in [1..n -> ids] :
        /\ \A i, j \in 1..n : i # j => s[i] # s[j]
        /\ OrderedByEventTime(store, s)}

\* CosmosOutboxRepo.listUnprocessed(batchSize): the results it may return
listUnprocessed(store, batchSize) ==
  {[i \in 1..Min(batchSize, Len(s)) |-> mapToDomain(store[s[i]])] :
     s \in QueryOrders(store)}

\* a processed mark that also restamps the entry
ProcessedResourceRestamped(resource, now) ==
  [resource EXCEPT !.processed = TRUE, !.processedAt = toISOString(now),
                   !.ttl = RetentionTtl, !.eventTime = toISOString(now)]

\* CosmosOutboxRepo.markAsProcessed: the document it writes back, from the one it read
ProcessedResource(resource, now) ==
  [resource EXCEPT !.processed = TRUE, !.processedAt = toISOString(now),
                   !.ttl = RetentionTtl]

\* a failure record that also starts the retention window
FailedResourceExpiring(resource, error) ==
  [resource EXCEPT !.retryCount = @ + 1, !.error = error, !.ttl = RetentionTtl]

\* CosmosOutboxRepo.markAsFailed: the document it writes back, from the one it read
FailedResource(resource, error) ==
  [resource EXCEPT !.retryCount = @ + 1, !.error = error]

\* item.replace(resource): the whole document is overwritten, with no etag condition
Replace(store, resource) == [store EXCEPT ![resource.id] = resource]

\* CosmosOutboxRepo.markAsProcessed, the store after a call that did not throw
\* and that no other writer interleaved with
markAsProcessed(store, id, now) ==
  IF id \in DOMAIN store
  THEN Replace(store, ProcessedResource(store[id], now))
  ELSE store

\* CosmosOutboxRepo.markAsFailed, the store after a call that did not throw
\* and that no other writer interleaved with
markAsFailed(store, id, error) ==
  IF id \in DOMAIN store
  THEN Replace(store, FailedResource(store[id], error))
  ELSE store

(* --------------------------- Outbox Publisher ------------------------- *)
\* a parameter without default
DefaultDataVersionNone(dataVersion) == dataVersion

\* the default parameter dataVersion: string = '1.0'
DefaultDataVersion(dataVersion) ==
  IF dataVersion = NoVersion THEN "1.0" ELSE dataVersion

\* OutboxEventPublisher.publish: the message it builds
NewOutboxMessage(id, topic, eventType, subject, data, dataVersion, now) ==
  [id |-> id, topic |-> topic, eventType |-> eventType, subject |-> subject,
   data |-> data, dataVersion |-> DefaultDataVersion(dataVersion), eventTime |-> now,
   processed |-> FALSE, processedAt |-> NoDate, error |-> NoError,
   retryCount |-> 0]

\* OutboxEventPublisher.publish, the store after a save that did not throw
OutboxPublish(store, id, topic, eventType, subject, data, dataVersion, now) ==
  Upsert(store, OutboxSaveDoc(
    NewOutboxMessage(id, topic, eventType, subject, data, dataVersion, now)))

\* randomUUID(): an id no stored entry has. Ids are opaque to the program, so
\* the k-th entry ever stored is given id k (entries are never removed)
randomUUID(store) == Cardinality(DOMAIN store) + 1

\* the payload with the two statuses exchanged
StatusChangedDataSwapped(deviceId, previousStatus, newStatus, updatedAt) ==
  [deviceId |-> deviceId, previousStatus |-> newStatus,
   newStatus |-> previousStatus, updatedAt |-> toISOString(updatedAt)]

\* payload of Catalogue.Device.StatusChanged
StatusChangedData(deviceId, previousStatus, newStatus, updatedAt) ==
  [deviceId |-> deviceId, previousStatus |-> previousStatus,
   newStatus |-> newStatus, updatedAt |-> toISOString(updatedAt)]

(* ---------------------------- Live Publisher -------------------------- *)
\* EventGridPublisher.publish: whether client.send is called at all
EventGridSends(configured) == configured

\* EventGridPublisher.publish rethrowing a failed send
EventGridPublishThrowsOnFailure(configured, sendOk) == configured /\ ~sendOk

\* EventGridPublisher.publish: whether the call throws to its caller; the
\* catch block around client.send logs the failure and does not rethrow
EventGridPublishThrows(configured, sendOk) == FALSE

\* EventGridPublisher.publishBatch: whether the call throws to its caller; same
\* early return and same catch block as publish
EventGridPublishBatchThrows(configured, sendOk) == FALSE

(* --------------------------- Outbox Drain Loop ------------------------ *)
StoreError == "Cosmos request failed"
SendError == "Event Grid send failed"

\* no document read yet
NoResource == [id |-> 0]

\* an outer catch that rethrows what it caught
TickRaisesOnFailure(caught) == caught

\* processOutbox: whether the invocation rejects; the outer catch logs
\* whatever reaches it and the function returns
TickRaises(caught) == FALSE

IdleTick ==
  [pc |-> "idle", messages |-> <<>>, i |-> 0, error |-> NoError,
   sendFailed |-> {}, fetchFailed |-> FALSE, resource |-> NoResource,
   raised |-> FALSE]

\* the for-loop moving to the next message, or the tick ending after the last
NextMessage(t) ==
  IF t.i < Len(t.messages)
  THEN [t EXCEPT !.i = @ + 1, !.pc = "publish", !.error = NoError]
  ELSE [t EXCEPT !.i = @ + 1, !.pc = "done", !.error = NoError]

\* the loop variable stuck on the first message
CurrentMessageFirst == tick.messages[1]

\* const message of messages
CurrentMessage == tick.messages[tick.i]

\* processOutbox: the timer fires and listUnprocessed(20) is awaited
TickFetch ==
  /\ tick.pc = "idle"
  /\ \E fail \in BOOLEAN :
       IF fail
       THEN tick' = [IdleTick EXCEPT !.pc = "done", !.fetchFailed = TRUE,
                                     !.raised = TickRaises(TRUE)]
       ELSE \E r \in listUnprocessed(outbox, DrainBatchSize) :
              tick' = IF Len(r) = 0
                      THEN [IdleTick EXCEPT !.pc = "done"]
                      ELSE [IdleTick EXCEPT !.pc = "publish", !.messages = r, !.i = 1]
  /\ UNCHANGED <<clock, devices, outbox, isConfigured, deviceModels, uc, accepted, h, g, tick2, batch>>

\* processOutbox: eventGridPublisher.publish(message...) is awaited
TickPublish ==
  /\ tick.pc = "publish"
  /\ \E sendOk \in BOOLEAN :
       LET id == CurrentMessage.id
           sends == EventGridSends(isConfigured)
           throws == EventGridPublishThrows(isConfigured, sendOk)
       IN /\ accepted' = IF sends /\ sendOk THEN accepted \cup {id} ELSE accepted
          /\ tick' = [tick EXCEPT
                        !.sendFailed = IF sends /\ ~sendOk THEN @ \cup {id} ELSE @,
                        !.pc = IF throws THEN "markAsFailed" ELSE "markAsProcessed",
                        !.error = IF throws THEN SendError ELSE NoError]
  /\ UNCHANGED <<clock, devices, outbox, isConfigured, deviceModels, uc, h, g, tick2, batch>>

\* processOutbox: outboxRepo.markAsProcessed(message.id) is awaited
TickMarkAsProcessed ==
  /\ tick.pc = "markAsProcessed"
  /\ \E fail \in BOOLEAN :
       LET id == CurrentMessage.id IN
       IF fail
       THEN /\ id \in DOMAIN outbox => outbox[id].retryCount < MaxRetry
            /\ tick' = [tick EXCEPT !.pc = "markAsFailed", !.error = StoreError]
            /\ outbox' = outbox
       ELSE /\ outbox' = markAsProcessed(outbox, id, clock)
            /\ tick' = NextMessage(tick)
  /\ UNCHANGED <<clock, devices, isConfigured, deviceModels, uc, accepted, h, g, tick2, batch>>

\* processOutbox: the catch block, outboxRepo.markAsFailed(message.id, errorMessage);
\* an error thrown here leaves the loop and reaches the outer catch
TickMarkAsFailed ==
  /\ tick.pc = "markAsFailed"
  /\ \E fail \in BOOLEAN :
       IF fail
       THEN /\ tick' = [tick EXCEPT !.pc = "done", !.raised = TickRaises(TRUE)]
            /\ outbox' = outbox
       ELSE /\ outbox' = markAsFailed(outbox, CurrentMessage.id, tick.error)
            /\ tick' = NextMessage(tick)
  /\ UNCHANGED <<clock, devices, isConfigured, deviceModels, uc, accepted, h, g, tick2, batch>>

\* processOutbox returns to the scheduler
TickReturn ==
  /\ tick.pc = "done"
  /\ tick' = IdleTick
  /\ UNCHANGED <<clock, devices, outbox, isConfigured, deviceModels, uc, accepted, h, g, tick2, batch>>

\* the host process dies in the middle of a tick
TickCrash ==
  /\ tick.pc \in {"publish", "markAsProcessed", "markAsFailed"}
  /\ tick' = IdleTick
  /\ UNCHANGED <<clock, devices, outbox, isConfigured, deviceModels, uc, accepted, h, g, tick2, batch>>

\* time passes
AdvanceClock ==
  /\ clock < MaxClock
  /\ clock' = clock + 1
  /\ UNCHANGED <<devices, outbox, isConfigured, deviceModels, uc, accepted, tick, h, g, tick2, batch>>

\* the event a use case hands to the Outbox Publisher (its payload is opaque
\* to the outbox and the drain loop)
UseCaseEvents ==
  {[eventType |-> "Catalogue.Device.StatusChanged", subject |-> "d1",
    data |-> StatusChangedData("d1", "Available", "Unavailable", clock)]}

\* a use case calls OutboxEventPublisher.publish (randomUUID picks the id)
QueueEvent ==
  /\ Cardinality(DOMAIN outbox) < MaxMsgs
  /\ \E ev \in UseCaseEvents :
       outbox' = OutboxPublish(outbox, randomUUID(outbox), "Catalogue", ev.eventType, ev.subject,
                               ev.data, NoVersion, clock)
  /\ UNCHANGED <<clock, devices, isConfigured, deviceModels, uc, accepted, tick, h, g, tick2, batch>>

(* ------------------- Outbox Drain Loop, overlapping ticks ------------- *)
\* Two invocations of processOutbox in flight at once. Each await is a step of
\* its own, and markAsProcessed / markAsFailed are their item.read followed by
\* their item.replace, so the other invocation can write in between.

\* listUnprocessed(20) is awaited
FetchStep(cur, nxt) ==
  /\ cur.pc = "idle"
  /\ \E fail \in BOOLEAN :
       IF fail
       THEN nxt = [IdleTick EXCEPT !.pc = "done", !.fetchFailed = TRUE,
                                   !.raised = TickRaises(TRUE)]
       ELSE \E r \in listUnprocessed(outbox, DrainBatchSize) :
              nxt = IF Len(r) = 0
                    THEN [IdleTick EXCEPT !.pc = "done"]
                    ELSE [IdleTick EXCEPT !.pc = "publish", !.messages = r, !.i = 1]
  /\ UNCHANGED <<outbox, accepted>>

\* eventGridPublisher.publish(message...) is awaited
PublishStep(cur, nxt) ==
  /\ cur.pc = "publish"
  /\ \E sendOk \in BOOLEAN :
       LET id == cur.messages[cur.i].id
           sends == EventGridSends(isConfigured)
           throws == EventGridPublishThrows(isConfigured, sendOk)
       IN /\ accepted' = IF sends /\ sendOk THEN accepted \cup {id} ELSE accepted
          /\ nxt = [cur EXCEPT
                      !.pc = IF throws THEN "markAsFailed" ELSE "markAsProcessed",
                      !.error = IF throws THEN SendError ELSE NoError]
  /\ UNCHANGED outbox

\* a store call of markAsProcessed throws: the catch block of the loop is
\* entered; a store call of markAsFailed throws: the loop is left
StoreCallThrows(cur) ==
  IF cur.pc \in {"markAsProcessed", "replaceProcessed"}
  THEN [cur EXCEPT !.pc = "markAsFailed", !.error = StoreError,
                   !.resource = NoResource]
  ELSE [cur EXCEPT !.pc = "done", !.resource = NoResource,
                   !.raised = TickRaises(TRUE)]

\* markAsProcessed / markAsFailed: item.read is awaited
ReadStep(cur, nxt) ==
  /\ cur.pc \in {"markAsProcessed", "markAsFailed"}
  /\ \E fail \in BOOLEAN :
       LET id == cur.messages[cur.i].id IN
       IF fail
       THEN /\ cur.pc = "markAsProcessed" => outbox[id].retryCount < MaxRetry
            /\ nxt = StoreCallThrows(cur)
       ELSE nxt = [cur EXCEPT !.resource = outbox[id],
                              !.pc = IF cur.pc = "markAsProcessed"
                                     THEN "replaceProcessed" ELSE "replaceFailed"]
  /\ UNCHANGED <<outbox, accepted>>

\* markAsProcessed / markAsFailed: item.replace(resource) is awaited
ReplaceStep(cur, nxt) ==
  /\ cur.pc \in {"replaceProcessed", "replaceFailed"}
  /\ \E fail \in BOOLEAN :
       IF fail
       THEN /\ cur.pc = "replaceProcessed" =>
                 outbox[cur.resource.id].retryCount < MaxRetry
            /\ nxt = StoreCallThrows(cur)
            /\ outbox' = outbox
       ELSE /\ outbox' = Replace(outbox,
                           IF cur.pc = "replaceProcessed"
                           THEN ProcessedResource(cur.resource, clock)
                           ELSE FailedResource(cur.resource, cur.error))
            /\ nxt = [NextMessage(cur) EXCEPT !.resource = NoResource]
  /\ UNCHANGED accepted

\* processOutbox returns to the scheduler
TickReturnStep(cur, nxt) ==
  /\ cur.pc = "done"
  /\ nxt = IdleTick
  /\ UNCHANGED <<outbox, accepted>>

OverlapFrame == UNCHANGED <<clock, devices, isConfigured, deviceModels, uc, h, g, batch>>

\* a use case calls OutboxEventPublisher.publish while the ticks run
QueueEventOverlap ==
  /\ Cardinality(DOMAIN outbox) < MaxOverlapMsgs
  /\ QueueEvent

\* the first invocation
Fetch1 == FetchStep(tick, tick') /\ OverlapFrame /\ UNCHANGED tick2
Publish1 == PublishStep(tick, tick') /\ OverlapFrame /\ UNCHANGED tick2
Read1 == ReadStep(tick, tick') /\ OverlapFrame /\ UNCHANGED tick2
Replace1 == ReplaceStep(tick, tick') /\ OverlapFrame /\ UNCHANGED tick2
Return1 == TickReturnStep(tick, tick') /\ OverlapFrame /\ UNCHANGED tick2

\* the second invocation
Fetch2 == FetchStep(tick2, tick2') /\ OverlapFrame /\ UNCHANGED tick
Publish2 == PublishStep(tick2, tick2') /\ OverlapFrame /\ UNCHANGED tick
Read2 == ReadStep(tick2, tick2') /\ OverlapFrame /\ UNCHANGED tick
Replace2 == ReplaceStep(tick2, tick2') /\ OverlapFrame /\ UNCHANGED tick
Return2 == TickReturnStep(tick2, tick2') /\ OverlapFrame /\ UNCHANGED tick

(* ------------------------------ Device Store -------------------------- *)
\* a Device that is null, and the slot of a document that does not exist
NoDevice ==
  [id |-> "", deviceModelId |-> "", status |-> NoStatus, purchaseDate |-> 0,
   updatedAt |-> 0]
NoDocument ==
  [id |-> "", deviceModelId |-> "", status |-> NoStatus, purchaseDate |-> NoDate,
   updatedAt |-> NoDate]

\* CosmosDeviceRepo.mapToDocument
DeviceMapToDocument(device) ==
  [id |-> device.id, deviceModelId |-> device.deviceModelId,
   status |-> device.status, purchaseDate |-> toISOString(device.purchaseDate),
   updatedAt |-> toISOString(device.updatedAt)]

\* CosmosDeviceRepo.mapToDomain (every stored document has its required fields)
DeviceMapToDomain(document) ==
  [id |-> document.id, deviceModelId |-> document.deviceModelId,
   status |-> document.status, purchaseDate |-> parseDate(document.purchaseDate),
   updatedAt |-> parseDate(document.updatedAt)]

\* CosmosDeviceRepo.getById, the result of a call that did not throw
getById(store, id) ==
  IF store[id] = NoDocument THEN NoDevice ELSE DeviceMapToDomain(store[id])

\* a save that keeps the stored document unless the new one is younger
DeviceSaveIfNewer(store, device) ==
  IF store[device.id] # NoDocument
     /\ parseDate(store[device.id].updatedAt) >= device.updatedAt
  THEN store
  ELSE [store EXCEPT ![device.id] = DeviceMapToDocument(device)]

\* CosmosDeviceRepo.save, the store after an upsert that did not throw
DeviceSave(store, device) ==
  [store EXCEPT ![device.id] = DeviceMapToDocument(device)]

\* CosmosDeviceRepo.save, the Device it returns
DeviceSaved(device) == DeviceMapToDomain(DeviceMapToDocument(device))

(* ---------------------- Status Reconciliation Handlers ---------------- *)
ReservationEventTypes ==
  {"Reservation.Created", "Reservation.Cancelled", "Reservation.Collected",
   "Reservation.Returned", "Reservation.Expired"}

\* the mapping with Collected releasing the device
getDeviceStatusFromEventCollected(eventType) ==
  CASE eventType \in {"Reservation.Created"} -> "Unavailable"
    [] eventType \in {"Reservation.Returned", "Reservation.Cancelled",
                      "Reservation.Expired", "Reservation.Collected"} -> "Available"
    [] OTHER -> NoStatus

\* reservation-events.ts getDeviceStatusFromEvent
getDeviceStatusFromEvent(eventType) ==
  CASE eventType \in {"Reservation.Created", "Reservation.Collected"} -> "Unavailable"
    [] eventType \in {"Reservation.Returned", "Reservation.Cancelled",
                      "Reservation.Expired"} -> "Available"
    [] OTHER -> NoStatus

\* the status string passed through without the switch
mapToDeviceStatusUnchecked(status) == status

\* availability-events.ts mapToDeviceStatus
mapToDeviceStatus(status) ==
  IF status \in {"Available", "Unavailable", "Maintenance", "Retired", "Lost"}
  THEN status ELSE NoStatus

\* the status check skipped: every event is written
UpdateSkipsNever(existing, status) == FALSE

\* updateDeviceStatus: "Skip update if status is already the same"
UpdateSkips(existing, status) == existing.status = status

\* handleAvailabilityEvent: "Skip if status is already the same"
AvailabilitySkips(existing, newStatus) == existing.status = newStatus

\* the handler throwing on every failed result, NOT_FOUND included
ReservationRaisesAlways(success, code) == ~success

\* handleReservationEvent: throws when the use case failed, unless NOT_FOUND
ReservationRaises(success, code) == ~success /\ code # "NOT_FOUND"

\* an update that rebuilds the device instead of spreading the existing one
UpdatedDeviceRebuilt(existing, status, now) ==
  [existing EXCEPT !.status = status, !.updatedAt = now, !.purchaseDate = now]

\* updateDeviceStatus: the updated Device built from the existing one
UpdatedDevice(existing, status, now) ==
  [existing EXCEPT !.status = status, !.updatedAt = now]

IdleHandler ==
  [pc |-> "idle", kind |-> "", deviceId |-> "", eventType |-> "", newStatus |-> "",
   target |-> NoStatus,
   existing |-> NoDevice, updated |-> NoDevice, notFound |-> FALSE,
   outcome |-> "", reads |-> 0, saves |-> 0, queued |-> 0, failed |-> "",
   preDevices |-> [d \in DeviceIds |-> NoDocument], preOutbox |-> <<>>]

\* the handler ends: it returned normally, or raised to the delivery mechanism
Finished(hh, outcome) == [hh EXCEPT !.pc = "done", !.outcome = outcome]

ReservationEvents ==
  [eventType : ReservationEventTypes \cup {"Reservation.Extended"},
   deviceId : DeviceIds \cup {""}]

AvailabilityEvents ==
  [eventType : {"Availability.Changed", "Availability.Removed"},
   deviceId : DeviceIds \cup {""},
   newStatus : DeviceStatus \cup {"Bogus", ""}]

\* events for the catalogued device d1, with valid targets
RaceReservationEvents ==
  [eventType : {"Reservation.Created", "Reservation.Returned"}, deviceId : {"d1"}]

RaceAvailabilityEvents ==
  [eventType : {"Availability.Changed"}, deviceId : {"d1"},
   newStatus : {"Available", "Maintenance"}]

\* an invocation starts with the stores as they are
Started(kind, deviceId, eventType, newStatus) ==
  [IdleHandler EXCEPT !.kind = kind, !.deviceId = deviceId,
                      !.eventType = eventType, !.newStatus = newStatus,
                      !.preDevices = devices, !.preOutbox = outbox]

\* reservation invocations that may still queue an outbox entry
InFlight(hh) == IF hh.kind = "reservation" /\ hh.pc \in {"getById", "save", "publish"}
                THEN 1 ELSE 0

\* handleReservationEvent: validation and the mapping to a target status
ResReceiveStep(cur, nxt, events) ==
  /\ cur.pc = "idle"
  /\ Cardinality(DOMAIN outbox) + InFlight(h) + InFlight(g) < MaxMsgs
  /\ \E event \in events :
       LET newStatus == getDeviceStatusFromEvent(event.eventType)
           start == Started("reservation", event.deviceId, event.eventType, "")
       IN nxt = IF event.deviceId = "" \/ newStatus = NoStatus
                THEN Finished(start, "returned")
                ELSE [start EXCEPT !.pc = "getById", !.target = newStatus]
  /\ UNCHANGED <<clock, devices, outbox>>

\* updateDeviceStatus: deviceRepo.getById is awaited, then the two early returns
ResGetByIdStep(cur, nxt) ==
  /\ cur.pc = "getById" /\ cur.kind = "reservation"
  /\ \E fail \in BOOLEAN :
       LET read == [cur EXCEPT !.reads = @ + 1] IN
       IF fail
       THEN nxt = Finished([read EXCEPT !.failed = "load"],
                           IF ReservationRaises(FALSE, "") THEN "raised" ELSE "returned")
       ELSE LET existing == getById(devices, cur.deviceId) IN
            nxt = IF existing = NoDevice
                  THEN Finished([read EXCEPT !.notFound = TRUE],
                                IF ReservationRaises(FALSE, "NOT_FOUND")
                                THEN "raised" ELSE "returned")
                  ELSE IF UpdateSkips(existing, cur.target)
                  THEN Finished([read EXCEPT !.existing = existing],
                                IF ReservationRaises(TRUE, "") THEN "raised" ELSE "returned")
                  ELSE [read EXCEPT !.existing = existing, !.pc = "save",
                                    !.updated = UpdatedDevice(existing, cur.target, clock)]
  /\ UNCHANGED <<clock, devices, outbox>>

\* updateDeviceStatus: deviceRepo.save(updated) is awaited
ResSaveStep(cur, nxt) ==
  /\ cur.pc = "save" /\ cur.kind = "reservation"
  /\ \E fail \in BOOLEAN :
       IF fail
       THEN /\ nxt = Finished([cur EXCEPT !.saves = @ + 1, !.failed = "save"],
                              IF ReservationRaises(FALSE, "") THEN "raised" ELSE "returned")
            /\ devices' = devices
       ELSE /\ devices' = DeviceSave(devices, cur.updated)
            /\ nxt = [cur EXCEPT !.saves = @ + 1, !.pc = "publish",
                                 !.updated = DeviceSaved(cur.updated)]
  /\ UNCHANGED <<clock, outbox>>

\* updateDeviceStatus: eventPublisher.publish(StatusChanged) is awaited
ResPublishStep(cur, nxt) ==
  /\ cur.pc = "publish" /\ cur.kind = "reservation"
  /\ \E fail \in BOOLEAN :
       IF fail
       THEN /\ nxt = Finished([cur EXCEPT !.failed = "publish"],
                              IF ReservationRaises(FALSE, "") THEN "raised" ELSE "returned")
            /\ outbox' = outbox
       ELSE /\ outbox' = OutboxPublish(outbox, randomUUID(outbox), "Catalogue",
                             "Catalogue.Device.StatusChanged", cur.updated.id,
                             StatusChangedData(cur.updated.id, cur.existing.status,
                                               cur.updated.status, cur.updated.updatedAt),
                             NoVersion, clock)
            /\ nxt = Finished([cur EXCEPT !.queued = @ + 1],
                              IF ReservationRaises(TRUE, "") THEN "raised" ELSE "returned")
  /\ UNCHANGED <<clock, devices>>

\* handleAvailabilityEvent: validation and the mapping to a target status
AvReceiveStep(cur, nxt, events) ==
  /\ cur.pc = "idle"
  /\ \E event \in events :
       LET newStatus == mapToDeviceStatus(event.newStatus)
           start == Started("availability", event.deviceId, event.eventType,
                            event.newStatus)
       IN nxt = IF \/ event.eventType # "Availability.Changed"
                   \/ event.deviceId = ""
                   \/ event.newStatus = ""
                   \/ newStatus = NoStatus
                THEN Finished(start, "returned")
                ELSE [start EXCEPT !.pc = "getById", !.target = newStatus]
  /\ UNCHANGED <<clock, devices, outbox>>

\* the catch block rethrowing only some failures
AvailabilityRaisesNever(failed) == FALSE

\* handleAvailabilityEvent: the catch block throws "to trigger retry"
AvailabilityRaises(failed) == failed

\* handleAvailabilityEvent: deviceRepo.getById is awaited, then the two early returns
AvGetByIdStep(cur, nxt) ==
  /\ cur.pc = "getById" /\ cur.kind = "availability"
  /\ \E fail \in BOOLEAN :
       LET read == [cur EXCEPT !.reads = @ + 1] IN
       IF fail
       THEN nxt = Finished([read EXCEPT !.failed = "load"],
                           IF AvailabilityRaises(TRUE) THEN "raised" ELSE "returned")
       ELSE LET existing == getById(devices, cur.deviceId) IN
            nxt = IF existing = NoDevice
                  THEN Finished([read EXCEPT !.notFound = TRUE], "returned")
                  ELSE IF AvailabilitySkips(existing, cur.target)
                  THEN Finished([read EXCEPT !.existing = existing], "returned")
                  ELSE [read EXCEPT !.existing = existing, !.pc = "save",
                                    !.updated = UpdatedDevice(existing, cur.target, clock)]
  /\ UNCHANGED <<clock, devices, outbox>>

\* handleAvailabilityEvent: deviceRepo.save(updated) is awaited; nothing is published
AvSaveStep(cur, nxt) ==
  /\ cur.pc = "save" /\ cur.kind = "availability"
  /\ \E fail \in BOOLEAN :
       IF fail
       THEN /\ nxt = Finished([cur EXCEPT !.saves = @ + 1, !.failed = "save"],
                              IF AvailabilityRaises(TRUE) THEN "raised" ELSE "returned")
            /\ devices' = devices
       ELSE /\ devices' = DeviceSave(devices, cur.updated)
            /\ nxt = Finished([cur EXCEPT !.saves = @ + 1], "returned")
  /\ UNCHANGED <<clock, outbox>>

\* the invocation is over; the next event can be delivered
ReturnStep(cur, nxt) ==
  /\ cur.pc = "done"
  /\ nxt = IdleHandler
  /\ UNCHANGED <<clock, devices, outbox>>

\* what no reconciliation handler touches
HandlerFrame == UNCHANGED <<isConfigured, deviceModels, uc, accepted, tick, tick2, batch>>

\* the invocation h
ResReceive == ResReceiveStep(h, h', ReservationEvents) /\ HandlerFrame /\ UNCHANGED g
ResGetById == ResGetByIdStep(h, h') /\ HandlerFrame /\ UNCHANGED g
ResSave == ResSaveStep(h, h') /\ HandlerFrame /\ UNCHANGED g
ResPublish == ResPublishStep(h, h') /\ HandlerFrame /\ UNCHANGED g
AvReceive == AvReceiveStep(h, h', AvailabilityEvents) /\ HandlerFrame /\ UNCHANGED g
AvGetById == AvGetByIdStep(h, h') /\ HandlerFrame /\ UNCHANGED g
AvSave == AvSaveStep(h, h') /\ HandlerFrame /\ UNCHANGED g
HandlerReturn == ReturnStep(h, h') /\ HandlerFrame /\ UNCHANGED g

\* the second invocation g
GResReceive == ResReceiveStep(g, g', RaceReservationEvents) /\ HandlerFrame /\ UNCHANGED h
GResGetById == ResGetByIdStep(g, g') /\ HandlerFrame /\ UNCHANGED h
GResSave == ResSaveStep(g, g') /\ HandlerFrame /\ UNCHANGED h
GResPublish == ResPublishStep(g, g') /\ HandlerFrame /\ UNCHANGED h
GAvReceive == AvReceiveStep(g, g', RaceAvailabilityEvents) /\ HandlerFrame /\ UNCHANGED h
GAvGetById == AvGetByIdStep(g, g') /\ HandlerFrame /\ UNCHANGED h
GAvSave == AvSaveStep(g, g') /\ HandlerFrame /\ UNCHANGED h
GHandlerReturn == ReturnStep(g, g') /\ HandlerFrame /\ UNCHANGED h

\* the invocation h, for the events of two invocations that race on d1
RaceResReceive == ResReceiveStep(h, h', RaceReservationEvents) /\ HandlerFrame /\ UNCHANGED g
RaceAvReceive == AvReceiveStep(h, h', RaceAvailabilityEvents) /\ HandlerFrame /\ UNCHANGED g

(* ------------------------ EventPublisher callers ---------------------- *)
\* A caller of the EventPublisher interface: one call of publish or
\* publishBatch, on the Outbox Publisher or on the Live Publisher, at a time.
\* queued counts the saves that succeeded, failedAt is the position (from 1) of
\* the event whose save threw, sends counts client.send calls.
IdleBatch ==
  [pc |-> "idle", impl |-> "", op |-> "", events |-> <<>>, k |-> 0,
   outcome |-> "", queued |-> 0, failedAt |-> 0, sends |-> 0,
   sendFailed |-> FALSE, preOutbox |-> <<>>]

\* events a caller can pass: with and without a dataVersion
BatchEvents ==
  {[topic |-> "Catalogue", eventType |-> "Catalogue.Device.StatusChanged",
    subject |-> "d1", data |-> "status", dataVersion |-> NoVersion],
   [topic |-> "Catalogue", eventType |-> "Catalogue.Device.Deleted",
    subject |-> "d2", data |-> "deleted", dataVersion |-> "2.0"]}

BatchInputs == UNION {[1..n -> BatchEvents] : n \in 0..MaxBatch}

BatchFrame == UNCHANGED <<clock, devices, isConfigured, deviceModels, uc, tick, h, g, tick2>>

\* OutboxEventPublisher.publishBatch(events) is called; an empty batch returns
OutboxPublishBatchCall ==
  /\ batch.pc = "idle"
  /\ \E events \in BatchInputs :
       /\ Cardinality(DOMAIN outbox) + Len(events) <= MaxBatch
       /\ batch' = [IdleBatch EXCEPT !.impl = "outbox", !.op = "publishBatch",
                                     !.events = events, !.k = 1,
                                     !.preOutbox = outbox,
                                     !.pc = IF Len(events) = 0 THEN "done" ELSE "publish",
                                     !.outcome = IF Len(events) = 0 THEN "returned" ELSE ""]
  /\ UNCHANGED <<outbox, accepted>> /\ BatchFrame

\* a save that rejects and is not caught
SaveThrowsNever(fail) == FALSE

\* publishBatch: a save that rejects ends the for-loop, nothing catches it
SaveThrows(fail) == fail

\* OutboxEventPublisher.publishBatch: await this.publish(event...) for the k-th
\* event; after the last one the call returns
OutboxPublishBatchStep ==
  /\ batch.pc = "publish"
  /\ \E fail \in BOOLEAN :
       LET event == batch.events[batch.k]
           last == batch.k = Len(batch.events)
       IN /\ outbox' = IF fail THEN outbox
                       ELSE OutboxPublish(outbox, randomUUID(outbox), event.topic,
                                          event.eventType, event.subject, event.data,
                                          event.dataVersion, clock)
          /\ batch' =
               IF SaveThrows(fail)
               THEN [batch EXCEPT !.pc = "done", !.outcome = "raised",
                                  !.failedAt = batch.k]
               ELSE [batch EXCEPT !.k = @ + 1,
                                  !.queued = IF fail THEN @ ELSE @ + 1,
                                  !.pc = IF last THEN "done" ELSE "publish",
                                  !.outcome = IF last THEN "returned" ELSE ""]
  /\ UNCHANGED accepted /\ BatchFrame

\* EventGridPublisher.publish(event...) is called directly
LivePublishCall ==
  /\ batch.pc = "idle"
  /\ \E event \in BatchEvents :
       batch' = [IdleBatch EXCEPT !.impl = "live", !.op = "publish",
                                  !.events = <<event>>, !.preOutbox = outbox,
                                  !.pc = IF EventGridSends(isConfigured)
                                         THEN "send" ELSE "done",
                                  !.outcome = IF EventGridSends(isConfigured)
                                              THEN "" ELSE "returned"]
  /\ UNCHANGED <<outbox, accepted>> /\ BatchFrame

\* EventGridPublisher.publishBatch(events) is called directly
LivePublishBatchCall ==
  /\ batch.pc = "idle"
  /\ \E events \in BatchInputs :
       batch' = [IdleBatch EXCEPT !.impl = "live", !.op = "publishBatch",
                                  !.events = events, !.preOutbox = outbox,
                                  !.pc = IF EventGridSends(isConfigured)
                                         THEN "send" ELSE "done",
                                  !.outcome = IF EventGridSends(isConfigured)
                                              THEN "" ELSE "returned"]
  /\ UNCHANGED <<outbox, accepted>> /\ BatchFrame

\* EventGridPublisher: client.send(...) is awaited, inside try / catch
LiveSend ==
  /\ batch.pc = "send"
  /\ \E sendOk \in BOOLEAN :
       LET throws == IF batch.op = "publish"
                     THEN EventGridPublishThrows(isConfigured, sendOk)
                     ELSE EventGridPublishBatchThrows(isConfigured, sendOk)
       IN batch' = [batch EXCEPT !.pc = "done", !.sends = @ + 1,
                                 !.sendFailed = ~sendOk,
                                 !.outcome = IF throws THEN "raised" ELSE "returned"]
  /\ UNCHANGED <<outbox, accepted>> /\ BatchFrame

\* the call is over, the caller goes on
CallReturn ==
  /\ batch.pc = "done"
  /\ batch' = IdleBatch
  /\ UNCHANGED <<outbox, accepted>> /\ BatchFrame

(* -------------------------------- use cases --------------------------- *)
ModelIds == {"m1"}
NoModelDocument == [id |-> "", brand |-> "", updatedAt |-> NoDate]

\* CosmosDeviceModelRepo.mapToDocument / mapToDomain
DeviceModelMapToDocument(model) ==
  [id |-> model.id, brand |-> model.brand, updatedAt |-> toISOString(model.updatedAt)]

DeviceModelMapToDomain(document) ==
  [id |-> document.id, brand |-> document.brand,
   updatedAt |-> parseDate(document.updatedAt)]

\* CosmosDeviceModelRepo.save / delete and CosmosDeviceRepo.delete, the store
\* after a call that did not throw (deleting an absent item returns normally)
DeviceModelSave(store, model) ==
  [store EXCEPT ![model.id] = DeviceModelMapToDocument(model)]

DeviceModelDelete(store, id) == [store EXCEPT ![id] = NoModelDocument]

DeviceDelete(store, id) == [store EXCEPT ![id] = NoDocument]

DeviceUseCases == {"saveDevice", "deleteDevice"}
DeviceModelUseCases == {"saveDeviceModel", "deleteDeviceModel"}

\* whether the use case calls eventPublisher.publish after its write;
\* deleteDeviceModel has no publisher among its dependencies
Publishes(op) == op # "deleteDeviceModel"

\* wrote: the entity write returned; queued: publish calls that returned
IdleUseCase ==
  [pc |-> "idle", op |-> "", id |-> "", entity |-> NoDevice,
   success |-> FALSE, wrote |-> FALSE, queued |-> 0, preOutbox |-> <<>>]

\* the entities the HTTP layer hands to saveDevice / saveDeviceModel
DeviceInputs ==
  {[id |-> id, deviceModelId |-> "m1", status |-> st,
    purchaseDate |-> ClockStart - 1, updatedAt |-> clock] :
     id \in DeviceIds, st \in {"Available", "Maintenance"}}

DeviceModelInputs ==
  {[id |-> id, brand |-> "Nikon", updatedAt |-> clock] : id \in ModelIds}

\* the event a use case publishes after its write
UseCaseEvent(u) ==
  CASE u.op = "saveDevice" ->
         [eventType |-> "Catalogue.Device.Upserted", data |-> DeviceSaved(u.entity)]
    [] u.op = "deleteDevice" ->
         [eventType |-> "Catalogue.Device.Deleted", data |-> [id |-> u.id]]
    [] OTHER ->
         [eventType |-> "Catalogue.DeviceModel.Upserted",
          data |-> DeviceModelMapToDomain(DeviceModelMapToDocument(u.entity))]

UseCaseFrame == UNCHANGED <<clock, isConfigured, accepted, tick, h, g, tick2, batch>>

\* the HTTP layer calls a use case of ops
UseCaseCallStep(ops) ==
  /\ uc.pc = "idle"
  /\ Cardinality(DOMAIN outbox) < MaxMsgs
  /\ \E op \in ops :
       \E entity \in (IF op = "saveDevice" THEN DeviceInputs
                      ELSE IF op = "saveDeviceModel" THEN DeviceModelInputs
                      ELSE {[id |-> id] : id \in IF op = "deleteDevice"
                                                 THEN DeviceIds ELSE ModelIds}) :
         uc' = [IdleUseCase EXCEPT !.pc = "write", !.op = op, !.id = entity.id,
                                   !.entity = entity, !.preOutbox = outbox]
  /\ UNCHANGED <<devices, deviceModels, outbox>>

UseCaseCall ==
  UseCaseCallStep(DeviceUseCases \cup DeviceModelUseCases) /\ UseCaseFrame

\* the HTTP layer calls deleteDevice
DeleteDeviceCall == UseCaseCallStep({"deleteDevice"}) /\ UseCaseFrame

\* the repository call of the use case is awaited; when it throws, the catch
\* block returns success: false
UseCaseWrite ==
  /\ uc.pc = "write"
  /\ \E fail \in BOOLEAN :
       IF fail
       THEN /\ uc' = [uc EXCEPT !.pc = "done", !.success = FALSE]
            /\ UNCHANGED <<devices, deviceModels>>
       ELSE /\ devices' = CASE uc.op = "saveDevice" -> DeviceSave(devices, uc.entity)
                             [] uc.op = "deleteDevice" -> DeviceDelete(devices, uc.id)
                             [] OTHER -> devices
            /\ deviceModels' =
                 CASE uc.op = "saveDeviceModel" -> DeviceModelSave(deviceModels, uc.entity)
                   [] uc.op = "deleteDeviceModel" -> DeviceModelDelete(deviceModels, uc.id)
                   [] OTHER -> deviceModels
            /\ uc' = IF Publishes(uc.op)
                     THEN [uc EXCEPT !.pc = "publish", !.wrote = TRUE]
                     ELSE [uc EXCEPT !.pc = "done", !.wrote = TRUE, !.success = TRUE]
  /\ UNCHANGED outbox /\ UseCaseFrame

\* eventPublisher.publish(...) is awaited
UseCasePublish ==
  /\ uc.pc = "publish"
  /\ \E fail \in BOOLEAN :
       IF fail
       THEN /\ uc' = [uc EXCEPT !.pc = "done", !.success = FALSE]
            /\ outbox' = outbox
       ELSE /\ outbox' = OutboxPublish(outbox, randomUUID(outbox), "Catalogue",
                                       UseCaseEvent(uc).eventType, uc.id,
                                       UseCaseEvent(uc).data, NoVersion, clock)
            /\ uc' = [uc EXCEPT !.pc = "done", !.success = TRUE, !.queued = @ + 1]
  /\ UNCHANGED <<devices, deviceModels>> /\ UseCaseFrame

\* the result is returned to the HTTP layer
UseCaseReturn ==
  /\ uc.pc = "done"
  /\ uc' = IdleUseCase
  /\ UNCHANGED <<devices, deviceModels, outbox>> /\ UseCaseFrame

(* ---------------------------- specifications -------------------------- *)
\* d1 is a catalogued device, d2 is not in the Device Store
Init ==
  /\ clock = ClockStart
  /\ devices = [d \in DeviceIds |->
                  IF d = "d1"
                  THEN DeviceMapToDocument([id |-> "d1", deviceModelId |-> "m1",
                                            purchaseDate |-> ClockStart - 1,
                                            status |-> "Available",
                                            updatedAt |-> ClockStart])
                  ELSE NoDocument]
  /\ outbox = <<>>
  /\ isConfigured \in BOOLEAN
  /\ accepted = {}
  /\ tick = IdleTick
  /\ h = IdleHandler
  /\ g = IdleHandler
  /\ tick2 = IdleTick
  /\ batch = IdleBatch
  /\ deviceModels = [m \in ModelIds |->
                       DeviceModelMapToDocument([id |-> m, brand |-> "Canon",
                                                 updatedAt |-> ClockStart])]
  /\ uc = IdleUseCase

\* the outbox: use cases queue events, the drain loop delivers them
NextOutbox ==
  \/ QueueEvent
  \/ TickFetch
  \/ TickPublish
  \/ TickMarkAsProcessed
  \/ TickMarkAsFailed
  \/ TickReturn
  \/ TickCrash
  \/ AdvanceClock

SpecOutbox == Init /\ [][NextOutbox]_vars

\* reconciliation: inbound events are handled one invocation after the other
NextRecon ==
  \/ ResReceive
  \/ ResGetById
  \/ ResSave
  \/ ResPublish
  \/ AvReceive
  \/ AvGetById
  \/ AvSave
  \/ HandlerReturn
  \/ AdvanceClock

\* the handlers do not use the Live Publisher
InitRecon == Init /\ isConfigured

\* reconciliation with two invocations in flight at once, on the same device
NextRace ==
  \/ RaceResReceive
  \/ ResGetById
  \/ ResSave
  \/ ResPublish
  \/ RaceAvReceive
  \/ AvGetById
  \/ AvSave
  \/ HandlerReturn
  \/ GResReceive
  \/ GResGetById
  \/ GResSave
  \/ GResPublish
  \/ GAvReceive
  \/ GAvGetById
  \/ GAvSave
  \/ GHandlerReturn

SpecRace == InitRecon /\ [][NextRace]_vars

SpecRecon == InitRecon /\ [][NextRecon]_vars

\* the timer keeps firing and the host stays up
NextDrain ==
  \/ QueueEvent
  \/ TickFetch
  \/ TickPublish
  \/ TickMarkAsProcessed
  \/ TickMarkAsFailed
  \/ TickReturn
  \/ AdvanceClock

\* the fetch of a tick returns a batch
FetchSucceeds == TickFetch /\ tick'.pc = "publish"

\* markAsProcessed of entry id succeeds
MarkSucceeds(id) ==
  /\ TickMarkAsProcessed
  /\ tick.messages[tick.i].id = id
  /\ id \in DOMAIN outbox' /\ outbox'[id].processed

\* the youngest entry, the one whose delivery and marking do not keep failing
GoodEntry == MaxMsgs

\* every started step of a tick completes, the timer fires again after a tick,
\* the store does not refuse every fetch, and the store does not refuse every
\* markAsProcessed of the good entry; the other entries may fail on every tick
DrainFairness ==
  /\ WF_vars(TickFetch) /\ WF_vars(TickPublish) /\ WF_vars(TickMarkAsProcessed)
  /\ WF_vars(TickMarkAsFailed) /\ WF_vars(TickReturn)
  /\ SF_vars(FetchSucceeds)
  /\ SF_vars(MarkSucceeds(GoodEntry))

SpecDrainFair == Init /\ [][NextDrain]_vars /\ DrainFairness

\* reservation events for d1, delivered again whenever the handler raised
NextRedelivery ==
  \/ RaceResReceive
  \/ ResGetById
  \/ ResSave
  \/ ResPublish
  \/ HandlerReturn
  \/ AdvanceClock

SpecRedelivery == InitRecon /\ [][NextRedelivery]_vars

\* a handler invocation for d1 and deleteDevice calls, interleaved
NextDeleteRace ==
  \/ RaceResReceive
  \/ ResGetById
  \/ ResSave
  \/ ResPublish
  \/ RaceAvReceive
  \/ AvGetById
  \/ AvSave
  \/ HandlerReturn
  \/ DeleteDeviceCall
  \/ UseCaseWrite
  \/ UseCasePublish
  \/ UseCaseReturn

SpecDeleteRace == InitRecon /\ [][NextDeleteRace]_vars

\* the mutating use cases, one call at a time
NextUseCases ==
  \/ UseCaseCall
  \/ UseCaseWrite
  \/ UseCasePublish
  \/ UseCaseReturn
  \/ AdvanceClock

SpecUseCases == InitRecon /\ [][NextUseCases]_vars

\* callers of the two EventPublisher implementations
NextBatch ==
  \/ OutboxPublishBatchCall
  \/ OutboxPublishBatchStep
  \/ LivePublishCall
  \/ LivePublishBatchCall
  \/ LiveSend
  \/ CallReturn
  \/ AdvanceClock

SpecBatch == Init /\ [][NextBatch]_vars

\* the drain loop with two invocations in flight at once
NextOverlap ==
  \/ QueueEventOverlap
  \/ Fetch1
  \/ Publish1
  \/ Read1
  \/ Replace1
  \/ Return1
  \/ Fetch2
  \/ Publish2
  \/ Read2
  \/ Replace2
  \/ Return2

SpecOverlap == Init /\ [][NextOverlap]_vars

(* ------------------------------- claims ------------------------------- *)
\* entry k of the batch was marked by this tick: processed, or its failure recorded
Marked(k) ==
  LET m == tick.messages[k] IN
    /\ m.id \in DOMAIN outbox
    /\ \/ outbox[m.id].processed
       \/ outbox[m.id].retryCount > m.retryCount

\* C1: when the transport send of an entry fails during a tick, the entry ends
\* the tick with processed=false, retryCount one higher than fetched and error set
C1_FailedSendLeavesEntryPending ==
  tick.pc = "done" =>
    \A k \in 1..Len(tick.messages) :
      LET m == tick.messages[k] IN
        m.id \in tick.sendFailed =>
          /\ outbox[m.id].processed = FALSE
          /\ outbox[m.id].retryCount = m.retryCount + 1
          /\ outbox[m.id].error # NoError

\* C2: while the Live Publisher is not configured, no outbox entry is ever
\* marked processed
C2_UnconfiguredNeverMarksProcessed ==
  ~isConfigured => \A id \in DOMAIN outbox : outbox[id].processed = FALSE

\* C3: every entry with processed=true has been accepted by the transport
C3_ProcessedWasAccepted ==
  \A id \in DOMAIN outbox : outbox[id].processed => id \in accepted

\* C4: a failure while handling one entry of a batch never keeps the later
\* entries of the batch from being transmitted and marked in the same tick
C4_FailureDoesNotAbortBatch ==
  tick.pc = "done" =>
    \A k \in 1..Len(tick.messages) : k > tick.i => Marked(k)

\* C5: listUnprocessed never returns an entry whose processed flag is true
C5_ListUnprocessedOnlyUnprocessed ==
  /\ \A N \in 0..MaxMsgs : \A r \in listUnprocessed(outbox, N) :
       \A k \in 1..Len(r) : r[k].processed = FALSE
  /\ tick.pc = "publish" /\ tick.i = 1 =>
       \A k \in 1..Len(tick.messages) :
         outbox[tick.messages[k].id].processed = FALSE

\* a tick has just fetched a batch from a store that also holds a processed entry
C5_Witness ==
  /\ tick.pc = "publish" /\ tick.i = 1
  /\ \E id \in DOMAIN outbox : outbox[id].processed

\* C6: listUnprocessed(N) returns at most N entries, in non-decreasing
\* eventTime order, and they are the N oldest unprocessed entries
C6_ListUnprocessedOldestFirst ==
  \A N \in 0..MaxMsgs : \A r \in listUnprocessed(outbox, N) :
    LET pending == {id \in DOMAIN outbox : outbox[id].processed = FALSE}
        returned == {r[k].id : k \in 1..Len(r)}
    IN /\ Len(r) = Min(N, Cardinality(pending))
       /\ \A i, j \in 1..Len(r) : i < j => r[i].eventTime <= r[j].eventTime
       /\ \A id \in pending \ returned : \A k \in 1..Len(r) :
            parseDate(outbox[id].eventTime) >= r[k].eventTime

\* two pending entries of different age, and a tick that fetched both, oldest first
C6_Witness ==
  /\ tick.pc = "publish" /\ Len(tick.messages) = 2
  /\ tick.messages[1].eventTime < tick.messages[2].eventTime
  /\ \E a, b \in DOMAIN outbox :
       /\ outbox[a].processed = FALSE /\ outbox[b].processed = FALSE
       /\ parseDate(outbox[a].eventTime) < parseDate(outbox[b].eventTime)

\* the invocation in h left both stores as it found them
NothingWritten ==
  /\ h.saves = 0 /\ h.queued = 0
  /\ devices = h.preDevices /\ outbox = h.preOutbox

\* C7: an event applied to a device that already has the target status performs
\* no device write and queues no outbox entry
C7_SecondApplicationWritesNothing ==
  h.pc = "done" /\ h.existing # NoDevice /\ h.existing.status = h.target =>
    h.outcome = "returned" /\ NothingWritten

\* Reservation.Created handled for a device an earlier event already made Unavailable
C7_Witness ==
  /\ h.pc = "done" /\ h.kind = "reservation" /\ h.target = "Unavailable"
  /\ h.existing # NoDevice /\ h.existing.status = "Unavailable"
  /\ \E id \in DOMAIN outbox : outbox[id].data.newStatus = "Unavailable"

\* C8: an event for a device id absent from the Device Store makes the handler
\* return normally, with no device save and no outbox entry
C8_NotFoundShortCircuit ==
  h.pc = "done" /\ h.notFound => h.outcome = "returned" /\ NothingWritten

\* a reservation event for d2, which the Device Store does not hold
C8_Witness ==
  h.pc = "done" /\ h.notFound /\ h.kind = "reservation" /\ h.deviceId = "d2"

\* C9: when the reservation handler completes for an event whose target t differs
\* from the device's status s, the stored status is t and exactly one StatusChanged
\* entry s -> t was queued for the device, processed=false and retryCount=0
C9_StatusChangeQueuesOneEntry ==
  /\ h.pc = "done" /\ h.kind = "reservation" /\ h.outcome = "returned"
  /\ h.target # NoStatus /\ h.deviceId # ""
  /\ h.preDevices[h.deviceId] # NoDocument
  /\ h.preDevices[h.deviceId].status # h.target
  => /\ devices[h.deviceId].status = h.target
     /\ \A id \in DOMAIN h.preOutbox : id \in DOMAIN outbox /\ outbox[id] = h.preOutbox[id]
     /\ \E id \in DOMAIN outbox :
          /\ (DOMAIN outbox) \ (DOMAIN h.preOutbox) = {id}
          /\ outbox[id].eventType = "Catalogue.Device.StatusChanged"
          /\ outbox[id].subject = h.deviceId
          /\ outbox[id].data.deviceId = h.deviceId
          /\ outbox[id].data.previousStatus = h.preDevices[h.deviceId].status
          /\ outbox[id].data.newStatus = h.target
          /\ outbox[id].data.previousStatus # outbox[id].data.newStatus
          /\ outbox[id].processed = FALSE
          /\ outbox[id].retryCount = 0

\* d1 was Available, Reservation.Created made it Unavailable
C9_Witness ==
  /\ h.pc = "done" /\ h.kind = "reservation" /\ h.outcome = "returned"
  /\ h.deviceId = "d1" /\ h.target = "Unavailable"
  /\ h.preDevices["d1"].status = "Available"
  /\ devices["d1"].status = "Unavailable"

\* C10: whenever the availability handler persists a device with a changed
\* status, it queues one StatusChanged entry with the device id and both statuses
C10_AvailabilityQueuesStatusChanged ==
  /\ h.pc = "done" /\ h.kind = "availability" /\ h.deviceId # ""
  /\ devices[h.deviceId].status # h.preDevices[h.deviceId].status
  => \E id \in (DOMAIN outbox) \ (DOMAIN h.preOutbox) :
       /\ outbox[id].eventType = "Catalogue.Device.StatusChanged"
       /\ outbox[id].data.deviceId = h.deviceId
       /\ outbox[id].data.previousStatus = h.preDevices[h.deviceId].status
       /\ outbox[id].data.newStatus = devices[h.deviceId].status

\* the event of invocation hh names no device or resolves to no target status
C11_Unresolvable(hh) ==
  \/ hh.deviceId = ""
  \/ hh.kind = "reservation" /\ hh.eventType \notin ReservationEventTypes
  \/ hh.kind = "availability" /\ hh.newStatus \notin DeviceStatus

\* C11: an event without a device id or without a resolvable target status is
\* dropped: the handler returns normally, reads and writes no device, queues nothing
C11_UnresolvableEventDropped ==
  h.pc = "done" /\ C11_Unresolvable(h) =>
    h.outcome = "returned" /\ h.reads = 0 /\ NothingWritten

\* Availability.Changed for d1 with newStatus "Bogus" has been handled
C11_Witness ==
  /\ h.pc = "done" /\ h.kind = "availability" /\ h.deviceId = "d1"
  /\ h.eventType = "Availability.Changed" /\ h.newStatus = "Bogus"

\* the mapping of reservation event types the specification gives
C12_ReservationMapping(eventType) ==
  IF eventType \in {"Reservation.Created", "Reservation.Collected"} THEN "Unavailable"
  ELSE IF eventType \in {"Reservation.Returned", "Reservation.Cancelled",
                         "Reservation.Expired"} THEN "Available"
  ELSE NoStatus

\* the mapping of availability status strings the specification gives
C12_AvailabilityMapping(newStatus) ==
  IF newStatus \in DeviceStatus THEN newStatus ELSE NoStatus

\* C12: the target status each handler computes equals the specified mapping,
\* for every input
C12_TargetFollowsMapping ==
  /\ \A event \in ReservationEvents :
       getDeviceStatusFromEvent(event.eventType) = C12_ReservationMapping(event.eventType)
  /\ \A event \in AvailabilityEvents :
       mapToDeviceStatus(event.newStatus) = C12_AvailabilityMapping(event.newStatus)
  /\ h.pc \in {"getById", "save", "publish"} =>
       h.target = IF h.kind = "reservation"
                  THEN C12_ReservationMapping(h.eventType)
                  ELSE C12_AvailabilityMapping(h.newStatus)
  /\ h.pc = "done" /\ h.target = NoStatus /\ h.deviceId # ""
       /\ (h.kind = "availability" => h.eventType = "Availability.Changed") =>
       NoStatus = IF h.kind = "reservation"
                  THEN C12_ReservationMapping(h.eventType)
                  ELSE C12_AvailabilityMapping(h.newStatus)

\* Reservation.Collected for d1 was mapped to Unavailable
C12_Witness ==
  /\ h.pc = "getById" /\ h.kind = "reservation"
  /\ h.eventType = "Reservation.Collected" /\ h.target = "Unavailable"

\* C13: a failed Device Store load or save makes the handler raise to the
\* delivery mechanism; a device that is not found never does
C13_StoreFailureRaises ==
  h.pc = "done" =>
    /\ h.failed \in {"load", "save"} => h.outcome = "raised"
    /\ h.notFound => h.outcome = "returned"

\* the availability handler's save threw
C13_Witness ==
  /\ h.pc = "done" /\ h.kind = "availability" /\ h.failed = "save"
  /\ h.outcome = "raised"

\* invocation cur takes its save step to nxt and the save does not throw
C14_SaveLands(cur, nxt) ==
  cur.pc = "save" /\ nxt.pc # "save" /\ nxt.failed # "save"

\* C14: with two invocations interleaved on one device, every save that does not
\* throw lands (none is rejected or dropped because of the other), the stored
\* status is then the one that save wrote, and only a save changes the device
C14_LastWriteWins ==
  [][/\ C14_SaveLands(h, h') => devices'[h.deviceId].status = h.target
     /\ C14_SaveLands(g, g') => devices'[g.deviceId].status = g.target
     /\ devices' # devices => C14_SaveLands(h, h') \/ C14_SaveLands(g, g')]_vars

\* both invocations read the same old status of d1, then both saved conflicting
\* targets; the device holds the target of g
C14_Witness ==
  /\ h.saves = 1 /\ g.saves = 1 /\ h.failed # "save" /\ g.failed # "save"
  /\ h.deviceId = "d1" /\ g.deviceId = "d1"
  /\ h.existing.status = g.existing.status
  /\ h.preDevices = g.preDevices
  /\ h.target # g.target
  /\ devices["d1"].status = g.target

\* C15: the stored retryCount of an entry never decreases, whatever the
\* interleaving of publish, markAsProcessed and markAsFailed of two drain ticks
C15_RetryCountNeverDecreases ==
  [][\A id \in DOMAIN outbox : outbox'[id].retryCount >= outbox[id].retryCount]_vars

\* an entry that storage may expire, or that carries a processedAt timestamp
C16_Retained(doc) == doc.ttl # NoTtl \/ doc.processedAt # NoDate

\* C16: the drain loop never removes an entry, and every entry with a retention
\* window (ttl) or a processedAt timestamp has processed = true
C16_OnlyProcessedEntriesExpire ==
  /\ [](\A id \in DOMAIN outbox : C16_Retained(outbox[id]) => outbox[id].processed)
  /\ [][DOMAIN outbox \subseteq DOMAIN outbox']_vars

\* one entry was marked processed (with ttl and processedAt), another one failed
\* and is still pending without a retention window
C16_Witness ==
  \E a, b \in DOMAIN outbox :
    /\ outbox[a].processed /\ outbox[a].ttl = RetentionTtl
    /\ outbox[a].processedAt # NoDate
    /\ ~outbox[b].processed /\ outbox[b].retryCount > 0
    /\ outbox[b].ttl = NoTtl /\ outbox[b].processedAt = NoDate

\* C17: when markAsProcessed completes for an entry, the entry is processed and
\* carries no error message, also when an earlier attempt had recorded one
C17_ErrorClearedOnSuccess ==
  [][\A id \in DOMAIN outbox :
       ~outbox[id].processed /\ outbox'[id].processed
         => outbox'[id].error = NoError]_vars

\* the entry id is new and as OutboxEventPublisher.publish builds it when no
\* dataVersion is given
C18_FreshEntry(id) ==
  /\ id \notin DOMAIN outbox
  /\ DOMAIN outbox' = DOMAIN outbox \cup {id}
  /\ ~outbox'[id].processed
  /\ outbox'[id].retryCount = 0
  /\ outbox'[id].error = NoError
  /\ outbox'[id].dataVersion = "1.0"

\* C18: a call of OutboxEventPublisher.publish adds exactly one entry, pending,
\* never retried, without error, under a new id and with dataVersion "1.0";
\* it changes no existing entry and hands nothing to the transport
C18_PublishAddsOneEntry ==
  [][QueueEvent =>
       /\ \E id \in DOMAIN outbox' : C18_FreshEntry(id)
       /\ \A k \in DOMAIN outbox : outbox'[k] = outbox[k]
       /\ accepted' = accepted]_vars

\* entry 2 was queued after entry 1 had been retried, delivered and marked
C18_Witness ==
  /\ DOMAIN outbox = {1, 2}
  /\ outbox[1].processed /\ outbox[1].retryCount > 0 /\ 1 \in accepted
  /\ parseDate(outbox[2].eventTime) > parseDate(outbox[1].processedAt)
  /\ ~outbox[2].processed /\ outbox[2].retryCount = 0
  /\ outbox[2].dataVersion = "1.0"

\* the entry stored under id is the one publish builds for event
C19_EntryOf(id, event) ==
  /\ id \in DOMAIN outbox
  /\ outbox[id].eventType = event.eventType
  /\ outbox[id].subject = event.subject
  /\ outbox[id].data = event.data
  /\ outbox[id].dataVersion = DefaultDataVersion(event.dataVersion)
  /\ ~outbox[id].processed

\* the store holds what it held before the call, then the first n events of the
\* batch in input order, and nothing else
C19_QueuedPrefix(n) ==
  LET before == Cardinality(DOMAIN batch.preOutbox) IN
  /\ DOMAIN outbox = 1..(before + n)
  /\ \A id \in DOMAIN batch.preOutbox : outbox[id] = batch.preOutbox[id]
  /\ \A i \in 1..n : C19_EntryOf(before + i, batch.events[i])
  /\ \A i, j \in 1..n :
       i < j => ~StrLess(outbox[before + j].eventTime, outbox[before + i].eventTime)

\* C19: OutboxEventPublisher.publishBatch queues the events one by one in input
\* order; when the save of the k-th event fails the call raises, the first k-1
\* events stay queued and no event from the k-th on is queued
C19_BatchStopsAtFirstFailure ==
  batch.impl = "outbox" /\ batch.pc = "done" =>
    /\ batch.outcome = "raised" <=> batch.failedAt # 0
    /\ batch.outcome = "raised" => C19_QueuedPrefix(batch.failedAt - 1)
    /\ batch.outcome = "returned" => C19_QueuedPrefix(Len(batch.events))

\* a batch of three whose second save failed: the first event is queued, the
\* second and the third are not
C19_Witness ==
  /\ batch.impl = "outbox" /\ batch.pc = "done" /\ batch.outcome = "raised"
  /\ Len(batch.events) = 3 /\ batch.failedAt = 2
  /\ batch.events[1] # batch.events[2]
  /\ Cardinality(DOMAIN outbox) = 1

C21_GoodEntryEventuallyProcessed ==
  (GoodEntry \in DOMAIN outbox) ~>
    (GoodEntry \in DOMAIN outbox /\ outbox[GoodEntry].processed)

\* the tick is inside its for-loop, at entry tick.i
C22_InLoop == tick.pc \in {"publish", "markAsProcessed", "markAsFailed"}

\* the stored entry of batch position k is still as it was fetched
C22_Untouched(k) ==
  LET m == tick.messages[k] IN
    m.id \in DOMAIN outbox /\ mapToDomain(outbox[m.id]) = m

\* C22: a tick handles its batch in the order fetched (ascending eventTime), one
\* entry at a time: while entry i is being sent or marked, every earlier entry
\* has been marked and no later entry has been touched; a send is followed by
\* the marking of the same entry, and a marking writes only that entry
C22_SequentialInFetchOrder ==
  /\ [](C22_InLoop =>
          /\ \A k \in 1..Len(tick.messages) :
               /\ k < tick.i => Marked(k)
               /\ k > tick.i => C22_Untouched(k)
          /\ \A j, k \in 1..Len(tick.messages) :
               j < k => ~StrLess(toISOString(tick.messages[k].eventTime),
                                 toISOString(tick.messages[j].eventTime)))
  /\ [][/\ tick.pc = "publish" /\ tick'.pc # "idle" =>
             /\ tick'.i = tick.i /\ tick'.messages = tick.messages
             /\ tick'.pc \in {"publish", "markAsProcessed", "markAsFailed"}
             /\ tick'.pc = "publish" => tick' = tick
        /\ C22_InLoop /\ tick'.pc # "idle" /\ tick'.i # tick.i =>
             /\ tick.pc \in {"markAsProcessed", "markAsFailed"}
             /\ tick'.i = tick.i + 1
             /\ LET m == tick.messages[tick.i] IN
                  \/ outbox'[m.id].processed
                  \/ outbox'[m.id].retryCount > m.retryCount
        /\ C22_InLoop =>
             \A id \in DOMAIN outbox :
               outbox'[id] # outbox[id] =>
                 /\ tick.pc \in {"markAsProcessed", "markAsFailed"}
                 /\ id = tick.messages[tick.i].id]_vars

\* the second entry of a batch has been sent and awaits its marking; the first,
\* older one had its failure recorded before
C22_Witness ==
  /\ tick.pc = "markAsProcessed" /\ tick.i = 2
  /\ tick.messages[1].eventTime < tick.messages[2].eventTime
  /\ outbox[tick.messages[1].id].retryCount > tick.messages[1].retryCount
  /\ ~outbox[tick.messages[1].id].processed
  /\ C22_Untouched(2)

\* the fetch of the tick failed or returned no entry
C23_NothingFetched == tick.fetchFailed \/ Len(tick.messages) = 0

C24_NewEntries == DOMAIN outbox \ DOMAIN uc.preOutbox

\* C24: a mutating use case that completed successfully has written its entity
\* and then queued exactly one entry for it; when the entity write fails nothing
\* is queued and the use case reports failure
C24_UseCaseQueuesOneEntry ==
  uc.pc = "done" =>
    /\ uc.success =>
         /\ uc.wrote
         /\ Cardinality(C24_NewEntries) = 1
         /\ \A id \in C24_NewEntries : outbox[id].subject = uc.id
    /\ ~uc.wrote => ~uc.success /\ C24_NewEntries = {}

\* the fields of an entry that are fixed at creation are the same in a and b
C25_SameIdentity(a, b) ==
  /\ a.id = b.id /\ a.topic = b.topic /\ a.eventType = b.eventType
  /\ a.subject = b.subject /\ a.data = b.data
  /\ a.dataVersion = b.dataVersion /\ a.eventTime = b.eventTime

\* ids of stored entries and one id that is not stored
C25_Ids == 1..(MaxMsgs + 1)

\* C25: markAsProcessed and markAsFailed keep id, topic, eventType, subject,
\* data, dataVersion and eventTime of the entry and touch no other entry;
\* markAsFailed also keeps processed; for an id that is not stored both leave
\* the store as it is. The same holds for every write a drain tick makes.
C25_MarksKeepIdentity ==
  /\ [](\A id \in C25_Ids :
          LET p == markAsProcessed(outbox, id, clock)
              f == markAsFailed(outbox, id, StoreError)
          IN /\ DOMAIN p = DOMAIN outbox /\ DOMAIN f = DOMAIN outbox
             /\ \A k \in DOMAIN outbox :
                  /\ C25_SameIdentity(p[k], outbox[k])
                  /\ C25_SameIdentity(f[k], outbox[k])
                  /\ f[k].processed = outbox[k].processed
                  /\ k # id => p[k] = outbox[k] /\ f[k] = outbox[k]
             /\ id \notin DOMAIN outbox => p = outbox /\ f = outbox)
  /\ [][\A k \in DOMAIN outbox :
          /\ k \in DOMAIN outbox'
          /\ C25_SameIdentity(outbox'[k], outbox[k])]_vars

\* an entry that was marked failed and later processed, and an id never stored
C25_Witness ==
  /\ DOMAIN outbox = {1}
  /\ outbox[1].processed /\ outbox[1].retryCount > 0
  /\ parseDate(outbox[1].processedAt) > parseDate(outbox[1].eventTime)

\* C26: a handler invocation writes only the device named in its event, only by
\* its save, and changes nothing but status and updatedAt of that device; it
\* writes only when the status changes, so updatedAt moves only with the status
C26_HandlerChangesOnlyStatus ==
  [][\A d \in DeviceIds :
       devices'[d] # devices[d] =>
         /\ d = h.deviceId /\ h.pc = "save"
         /\ devices'[d].id = devices[d].id
         /\ devices'[d].deviceModelId = devices[d].deviceModelId
         /\ devices'[d].purchaseDate = devices[d].purchaseDate
         /\ devices'[d].status # devices[d].status]_vars

\* a handler has changed the status of d1 at a later instant than the last
\* update; the other fields are those of the start, d2 is still absent
C26_Witness ==
  /\ h.pc = "done" /\ h.saves = 1 /\ h.deviceId = "d1"
  /\ devices["d1"].status # h.preDevices["d1"].status
  /\ parseDate(devices["d1"].updatedAt) > parseDate(h.preDevices["d1"].updatedAt)
  /\ devices["d1"].purchaseDate = h.preDevices["d1"].purchaseDate
  /\ devices["d2"] = NoDocument

\* C27: an entry that has processed = true never has processed = false again,
\* also when two drain ticks overlap on it
C27_ProcessedIsMonotone ==
  [][\A id \in DOMAIN outbox : outbox[id].processed => outbox'[id].processed]_vars

\* a Catalogue.Device.StatusChanged entry for deviceId reaching status exists
C28_Notified(deviceId, status) ==
  \E id \in DOMAIN outbox :
    /\ outbox[id].eventType = "Catalogue.Device.StatusChanged"
    /\ outbox[id].subject = deviceId
    /\ outbox[id].data.newStatus = status

\* C28: once the reservation handler has completed normally for an event whose
\* status change is in the Device Store, a StatusChanged entry for that change
\* exists. d1 starts Available and only the handler writes it, so a stored
\* Unavailable is a change the handler persisted for a Created event.
C28_NoLostNotification ==
  /\ h.pc = "done" /\ h.outcome = "returned"
  /\ h.eventType = "Reservation.Created"
  /\ devices[h.deviceId].status = "Unavailable"
  => C28_Notified(h.deviceId, "Unavailable")

\* StatusChanged entries queued for deviceId since the store was as in before
C29_QueuedSince(before, deviceId) ==
  {id \in DOMAIN outbox \ DOMAIN before :
     /\ outbox[id].eventType = "Catalogue.Device.StatusChanged"
     /\ outbox[id].subject = deviceId}

\* C29: the StatusChanged entries queued for a device are as many as the changes
\* of its stored status. Two invocations of the reservation handler for the same
\* event, received in the same state, write the same target: the status changes
\* at most once, so at most one entry may be queued while they run.
C29_NoRedundantEvents ==
  /\ h.pc = "done" /\ g.pc = "done"
  /\ h.kind = "reservation" /\ g.kind = "reservation"
  /\ h.deviceId = g.deviceId /\ h.eventType = g.eventType
  /\ h.preDevices = g.preDevices /\ h.preOutbox = g.preOutbox
  => Cardinality(C29_QueuedSince(h.preOutbox, h.deviceId))
       <= IF devices[h.deviceId].status # h.preDevices[h.deviceId].status
          THEN 1 ELSE 0

\* C30: a handler never creates a device: when deleteDevice has removed the
\* device of a handler invocation and both have completed, the device is absent
C30_HandlerNeverCreatesDevice ==
  /\ uc.pc = "done" /\ uc.op = "deleteDevice" /\ uc.wrote
  /\ h.pc = "done" /\ h.deviceId = uc.id
  => devices[uc.id] = NoDocument

====
